---- MODULE Spec2Model ----
(***************************************************************************)
(* Model of src/lexer.py: the class AnalizadorLexico, a character scanner  *)
(* that turns a text into ID / ENTERO / REAL tokens with line and column.  *)
(*                                                                         *)
(* A character is a one-element name: ASCII characters stand for           *)
(* themselves, "LF" is the newline, and a non-ASCII character is written   *)
(* by its code point ("U+00E9").  texto is a sequence of characters, and   *)
(* the 0-based index pos of the code is the TLA+ position pos + 1.         *)
(*                                                                         *)
(* analizar runs in steps, one per loop iteration of the code (pc tells    *)
(* which loop is running).  After a call has returned or raised, the       *)
(* caller may call analizar again on the same instance (Analizar) or build *)
(* a new instance on the same text (Construir); fresco tells whether the   *)
(* running call is the first on its instance, previo keeps how the call    *)
(* before it ended, and lexemas keeps the offsets each token was read      *)
(* from.  vueltas and pos_vuelta keep the count of loop iterations of the  *)
(* running call and the cursor at which the running one began.  Between    *)
(* two calls of analizar the caller may also call caracter_actual, peek    *)
(* and (after a return) avanzar directly; devuelto keeps what the last     *)
(* such call returned.                                                     *)
(***************************************************************************)
EXTENDS Integers, Sequences, FiniteSets, TLC

\* ---------------------------------------------------------------- bounds
MaxLen == 3
MaxLlamadas == 2

\* ------------------------------------------- characters and str predicates
DigitosASCII == {"0", "1", "2", "3", "4", "5", "6", "7", "8", "9"}

LetrasASCII ==
    {"a", "b", "c", "d", "e", "f", "g", "h", "i", "j", "k", "l", "m",
     "n", "o", "p", "q", "r", "s", "t", "u", "v", "w", "x", "y", "z",
     "A", "B", "C", "D", "E", "F", "G", "H", "I", "J", "K", "L", "M",
     "N", "O", "P", "Q", "R", "S", "T", "U", "V", "W", "X", "Y", "Z"}

\* U+00E9 (e acute) is a letter; U+0663 (ARABIC-INDIC DIGIT THREE) is a
\* decimal digit; U+00B2 (SUPERSCRIPT TWO) is a digit that is not decimal;
\* U+00BD (VULGAR FRACTION ONE HALF) is numeric only.
Blancos == {" ", "LF", "TAB", "CR"}

\* the mistake of testing for the space character alone
isspace_solo_espacio(c) == c = " "

isspace(c) == c \in Blancos

isdecimal(c) == c \in DigitosASCII \cup {"U+0663"}

isdigit(c) == c \in DigitosASCII \cup {"U+0663", "U+00B2"}

isalpha(c) == c \in LetrasASCII \cup {"U+00E9"}

isalnum(c) == isalpha(c) \/ isdigit(c) \/ c = "U+00BD"

\* the characters the bounded inputs are drawn from
Alfabeto ==
    {"0", "7", "a", "_", ".", " ", "LF", "=",
     "U+00E9", "U+0663", "U+00B2", "U+00BD"}

\* the inputs the source and its specification name
Ej_x_igual_1 == <<"x", " ", "=", " ", "1">>
Ej_42_punto == <<"4", "2", ".">>
Ej_ab_cd == <<"a", "b", "LF", "c", "d">>
Ej_abc123 ==
    <<"a", "b", "c", "1", "2", "3", "_", "d", "e", "f", " ", "4", "5", "6">>
Ej_1_2_3 == <<"1", ".", "2", ".", "3">>
Ej_007 == <<"0", "0", "7">>
Ej_12abc == <<"1", "2", "a", "b", "c">>
Ej_sangria == <<" ", "a", "LF", " ", " ", "b", "7">>
Ej_real_punto == <<"7", ".", "0", ".">>

\* two of the inputs of the driver: "3.14159 2.718 42", "x1 y2 z3 123.456"
Ej_reales ==
    <<"3", ".", "1", "4", "1", "5", "9", " ", "2", ".", "7", "1", "8", " ",
      "4", "2">>
Ej_mixto ==
    <<"x", "1", " ", "y", "2", " ", "z", "3", " ", "1", "2", "3", ".", "4",
      "5", "6">>

Ejemplos ==
    {Ej_x_igual_1, Ej_42_punto, Ej_ab_cd, Ej_abc123, Ej_1_2_3, Ej_007,
     Ej_12abc, Ej_sangria, Ej_real_punto, Ej_reales, Ej_mixto}

Entradas == UNION {[1..n -> Alfabeto] : n \in 0..MaxLen} \cup Ejemplos

\* ------------------------------------------------------------ conversions
valor_digito(c) ==
    CASE c = "0" -> 0 [] c = "1" -> 1 [] c = "2" -> 2 [] c = "3" -> 3
      [] c = "4" -> 4 [] c = "5" -> 5 [] c = "6" -> 6 [] c = "7" -> 7
      [] c = "8" -> 8 [] c = "9" -> 9 [] c = "U+0663" -> 3

\* int() and float() raise ValueError on a digit that is not decimal
convertible(s) == \A i \in 1..Len(s) : s[i] = "." \/ isdecimal(s[i])

RECURSIVE base10(_)
base10(s) ==
    IF Len(s) = 0 THEN 0
    ELSE base10(SubSeq(s, 1, Len(s) - 1)) * 10 + valor_digito(s[Len(s)])

\* the mistake of converting the run without its last digit
int_sin_ultimo(s) == base10(SubSeq(s, 1, Len(s) - 1))

int(s) == base10(s)

RECURSIVE normal(_, _)
normal(m, e) == IF e > 0 /\ m % 10 = 0 THEN normal(m \div 10, e - 1)
                ELSE [mant |-> m, exp |-> e]

\* float() of digits "." digits, as the decimal mant / 10^exp in lowest
\* form (the binary rounding of float is not modelled)
float(s) ==
    LET p == CHOOSE i \in 1..Len(s) : s[i] = "."
    IN normal(base10(SubSeq(s, 1, p - 1) \o SubSeq(s, p + 1, Len(s))),
              Len(s) - p)

\* the mistake of passing the column where the line goes
Token_intercambiado(tipo, valor, lin, col) ==
    [tipo |-> tipo, valor |-> valor, linea |-> col, columna |-> lin]

Token(tipo, valor, lin, col) ==
    [tipo |-> tipo, valor |-> valor, linea |-> lin, columna |-> col]

\* ------------------------------------------------------------------ state
VARIABLES
    texto,          \* self.texto
    pos,            \* self.pos
    linea,          \* self.linea
    columna,        \* self.columna
    tokens,         \* self.tokens
    pc,             \* where the control of analizar is
    resultado,      \* local resultado of leer_numero / leer_identificador
    linea_inicio,   \* local linea_inicio
    col_inicio,     \* local col_inicio
    retorno,        \* {} or {the list analizar returned}
    excepcion,      \* {} or {the exception analizar raised}
    lexemas,        \* history: [ini, fin) offsets of each token's lexeme
    llamadas,       \* number of calls of analizar so far
    fresco,         \* the running call is the first on this instance
    previo,         \* outcome of the call of analizar before this one
    vueltas,        \* history: iterations of the loop of analizar begun
    pos_vuelta,     \* history: pos when the running iteration began
    devuelto        \* what the caller's last direct method call returned

vars == <<texto, pos, linea, columna, tokens, pc, resultado, linea_inicio,
          col_inicio, retorno, excepcion, lexemas, llamadas, fresco, previo,
          vueltas, pos_vuelta, devuelto>>

cursor == <<pos, linea, columna>>
locales == <<resultado, linea_inicio, col_inicio>>
salida == <<retorno, excepcion>>
historia == <<llamadas, fresco, previo>>
observado == <<vueltas, pos_vuelta, devuelto>>

\* devuelto before any direct call; valor is {} for None
SinConsulta == [op |-> "ninguna", valor |-> {}]

SinPrevio == [hay |-> FALSE, retorno |-> {}, excepcion |-> {}]

\* __init__
Init ==
    /\ texto \in Entradas
    /\ pos = 0
    /\ linea = 1
    /\ columna = 1
    /\ tokens = <<>>
    /\ pc = "listo"
    /\ resultado = <<>>
    /\ linea_inicio = 0
    /\ col_inicio = 0
    /\ retorno = {}
    /\ excepcion = {}
    /\ lexemas = <<>>
    /\ llamadas = 0
    /\ fresco = TRUE
    /\ previo = SinPrevio
    /\ vueltas = 0
    /\ pos_vuelta = 0
    /\ devuelto = SinConsulta

\* ------------------------------------------------------ cursor primitives
HayCaracter == pos < Len(texto)

caracter_actual == texto[pos + 1]

HayPeek == pos + 1 < Len(texto)

\* the mistake of looking at the cursor's own character
peek_sin_avance == texto[pos + 1]

peek == texto[pos + 2]

\* the mistake of leaving columna alone on a character that is no newline
avanzar_sin_columna ==
    IF pos < Len(texto)
    THEN /\ IF texto[pos + 1] = "LF"
            THEN linea' = linea + 1 /\ columna' = 1
            ELSE linea' = linea /\ columna' = columna
         /\ pos' = pos + 1
    ELSE UNCHANGED cursor

\* the mistake of advancing with no test for the end of the text
avanzar_sin_guardia ==
    /\ IF pos < Len(texto) /\ texto[pos + 1] = "LF"
       THEN linea' = linea + 1 /\ columna' = 1
       ELSE linea' = linea /\ columna' = columna + 1
    /\ pos' = pos + 1

\* the mistake of counting a newline as one more column
avanzar_sin_salto ==
    IF pos < Len(texto)
    THEN /\ linea' = linea
         /\ columna' = columna + 1
         /\ pos' = pos + 1
    ELSE UNCHANGED cursor

avanzar ==
    IF pos < Len(texto)
    THEN /\ IF texto[pos + 1] = "LF"
            THEN linea' = linea + 1 /\ columna' = 1
            ELSE linea' = linea /\ columna' = columna + 1
         /\ pos' = pos + 1
    ELSE UNCHANGED cursor

\* the mistake of reporting where the lexeme being read began
error_en_inicio(caracter) ==
    [tipo |-> "Exception", caracter |-> caracter,
     linea |-> linea_inicio, columna |-> col_inicio]

error(caracter) ==
    [tipo |-> "Exception", caracter |-> caracter,
     linea |-> linea, columna |-> columna]

ValueError ==
    [tipo |-> "ValueError", caracter |-> "", linea |-> 0, columna |-> 0]

\* ---------------------------------------------------------------- analizar
\* a call of analizar: the first on a new instance, or one more on an
\* instance whose earlier call returned or raised
Analizar ==
    /\ pc \in {"listo", "retornado", "excepcion"}
    /\ llamadas < MaxLlamadas
    /\ tokens' = <<>>
    /\ lexemas' = <<>>
    /\ retorno' = {}
    /\ excepcion' = {}
    /\ pc' = "loop"
    /\ llamadas' = llamadas + 1
    /\ fresco' = (pc = "listo")
    /\ previo' = IF pc = "listo" THEN previo
                 ELSE [hay |-> TRUE, retorno |-> retorno,
                       excepcion |-> excepcion]
    /\ vueltas' = 0
    /\ pos_vuelta' = pos
    /\ devuelto' = SinConsulta
    /\ UNCHANGED <<texto, cursor, locales>>

\* a new AnalizadorLexico on the same text, as the driver's loop builds
Construir ==
    /\ pc \in {"retornado", "excepcion"}
    /\ llamadas < MaxLlamadas
    /\ pos' = 0
    /\ linea' = 1
    /\ columna' = 1
    /\ tokens' = <<>>
    /\ lexemas' = <<>>
    /\ pc' = "listo"
    /\ previo' = [hay |-> TRUE, retorno |-> retorno, excepcion |-> excepcion]
    /\ retorno' = {}
    /\ excepcion' = {}
    /\ vueltas' = 0
    /\ pos_vuelta' = 0
    /\ devuelto' = SinConsulta
    /\ UNCHANGED <<texto, locales, llamadas, fresco>>

\* while self.caracter_actual(): ... return self.tokens
Retornar ==
    /\ pc = "loop"
    /\ ~HayCaracter
    /\ retorno' = {tokens}
    /\ pc' = "retornado"
    /\ UNCHANGED <<texto, cursor, tokens, locales, excepcion, lexemas,
                   historia,
                   observado>>

DespacharEspacios ==
    /\ pc = "loop"
    /\ HayCaracter
    /\ isspace(caracter_actual)
    /\ pc' = "saltar_espacios"
    /\ vueltas' = vueltas + 1
    /\ pos_vuelta' = pos
    /\ UNCHANGED <<texto, cursor, tokens, locales, salida, lexemas, historia,
                   devuelto>>

\* the mistake of letting a "." start a number
DespacharNumero_con_punto ==
    /\ pc = "loop"
    /\ HayCaracter
    /\ ~isspace(caracter_actual)
    /\ isdigit(caracter_actual) \/ caracter_actual = "."
    /\ resultado' = <<>>
    /\ col_inicio' = columna
    /\ linea_inicio' = linea
    /\ pc' = "parte_entera"
    /\ vueltas' = vueltas + 1
    /\ pos_vuelta' = pos
    /\ UNCHANGED <<texto, cursor, tokens, salida, lexemas, historia,
                   devuelto>>

DespacharNumero ==
    /\ pc = "loop"
    /\ HayCaracter
    /\ ~isspace(caracter_actual)
    /\ isdigit(caracter_actual)
    /\ resultado' = <<>>
    /\ col_inicio' = columna
    /\ linea_inicio' = linea
    /\ pc' = "parte_entera"
    /\ vueltas' = vueltas + 1
    /\ pos_vuelta' = pos
    /\ UNCHANGED <<texto, cursor, tokens, salida, lexemas, historia,
                   devuelto>>

DespacharIdentificador ==
    /\ pc = "loop"
    /\ HayCaracter
    /\ ~isspace(caracter_actual)
    /\ ~isdigit(caracter_actual)
    /\ isalpha(caracter_actual) \/ caracter_actual = "_"
    /\ resultado' = <<>>
    /\ col_inicio' = columna
    /\ linea_inicio' = linea
    /\ pc' = "identificador"
    /\ vueltas' = vueltas + 1
    /\ pos_vuelta' = pos
    /\ UNCHANGED <<texto, cursor, tokens, salida, lexemas, historia,
                   devuelto>>

NoReconocido ==
    /\ HayCaracter
    /\ ~isspace(caracter_actual)
    /\ ~isdigit(caracter_actual)
    /\ ~(isalpha(caracter_actual) \/ caracter_actual = "_")

DespacharError ==
    /\ pc = "loop"
    /\ NoReconocido
    /\ excepcion' = {error(caracter_actual)}
    /\ pc' = "excepcion"
    /\ vueltas' = vueltas + 1
    /\ pos_vuelta' = pos
    /\ UNCHANGED <<texto, cursor, tokens, locales, retorno, lexemas,
                   historia,
                   devuelto>>

\* --------------------------------------------------------- saltar_espacios
\* the mistake of skipping the space character alone
SigueEspacio_solo_espacio == HayCaracter /\ caracter_actual = " "

\* while self.caracter_actual() and self.caracter_actual().isspace()
SigueEspacio == HayCaracter /\ isspace(caracter_actual)

SaltarEspacio ==
    /\ pc = "saltar_espacios"
    /\ SigueEspacio
    /\ avanzar
    /\ UNCHANGED <<texto, tokens, pc, locales, salida, lexemas, historia,
                   observado>>

FinEspacios ==
    /\ pc = "saltar_espacios"
    /\ ~SigueEspacio
    /\ pc' = "loop"
    /\ UNCHANGED <<texto, cursor, tokens, locales, salida, lexemas, historia,
                   observado>>

\* ------------------------------------------------------------- leer_numero
\* the token leer_numero returns is appended by analizar in the same step;
\* a conversion that raises ends the call with no token
\* the mistake of putting the new token before the others
Emitir_al_frente(tipo, valor) ==
    /\ tokens' = <<Token(tipo, valor, linea_inicio, col_inicio)>> \o tokens
    /\ lexemas' = <<[ini |-> pos - Len(resultado), fin |-> pos]>> \o lexemas
    /\ pc' = "loop"
    /\ UNCHANGED <<texto, cursor, locales, salida, historia, observado>>

Emitir(tipo, valor) ==
    /\ tokens' = Append(tokens, Token(tipo, valor, linea_inicio, col_inicio))
    /\ lexemas' = Append(lexemas, [ini |-> pos - Len(resultado), fin |-> pos])
    /\ pc' = "loop"
    /\ UNCHANGED <<texto, cursor, locales, salida, historia, observado>>

Fallar ==
    /\ excepcion' = {ValueError}
    /\ pc' = "excepcion"
    /\ UNCHANGED <<texto, cursor, tokens, locales, retorno, lexemas,
                   historia,
                   observado>>

DigitoEntero ==
    /\ pc = "parte_entera"
    /\ HayCaracter /\ isdigit(caracter_actual)
    /\ resultado' = Append(resultado, caracter_actual)
    /\ avanzar
    /\ UNCHANGED <<texto, tokens, pc, linea_inicio, col_inicio, salida,
                   lexemas, historia,
                   observado>>

HayParteDecimal ==
    /\ HayCaracter /\ caracter_actual = "."
    /\ HayPeek /\ isdigit(peek)

PuntoDecimal ==
    /\ pc = "parte_entera"
    /\ ~(HayCaracter /\ isdigit(caracter_actual))
    /\ HayParteDecimal
    /\ resultado' = Append(resultado, caracter_actual)
    /\ avanzar
    /\ pc' = "parte_decimal"
    /\ UNCHANGED <<texto, tokens, linea_inicio, col_inicio, salida, lexemas,
                   historia,
                   observado>>

RetornarEntero ==
    /\ pc = "parte_entera"
    /\ ~(HayCaracter /\ isdigit(caracter_actual))
    /\ ~HayParteDecimal
    /\ convertible(resultado)
    /\ Emitir("ENTERO", int(resultado))

EnteroInvalido ==
    /\ pc = "parte_entera"
    /\ ~(HayCaracter /\ isdigit(caracter_actual))
    /\ ~HayParteDecimal
    /\ ~convertible(resultado)
    /\ Fallar

DigitoDecimal ==
    /\ pc = "parte_decimal"
    /\ HayCaracter /\ isdigit(caracter_actual)
    /\ resultado' = Append(resultado, caracter_actual)
    /\ avanzar
    /\ UNCHANGED <<texto, tokens, pc, linea_inicio, col_inicio, salida,
                   lexemas, historia,
                   observado>>

RetornarReal ==
    /\ pc = "parte_decimal"
    /\ ~(HayCaracter /\ isdigit(caracter_actual))
    /\ convertible(resultado)
    /\ Emitir("REAL", float(resultado))

RealInvalido ==
    /\ pc = "parte_decimal"
    /\ ~(HayCaracter /\ isdigit(caracter_actual))
    /\ ~convertible(resultado)
    /\ Fallar

\* ------------------------------------------------------ leer_identificador
\* the mistake of continuing on letters only
EsDeIdentificador_sin_digitos(c) == isalpha(c) \/ c = "_"

EsDeIdentificador(c) == isalnum(c) \/ c = "_"

CaracterIdentificador ==
    /\ pc = "identificador"
    /\ HayCaracter /\ EsDeIdentificador(caracter_actual)
    /\ resultado' = Append(resultado, caracter_actual)
    /\ avanzar
    /\ UNCHANGED <<texto, tokens, pc, linea_inicio, col_inicio, salida,
                   lexemas, historia,
                   observado>>

RetornarIdentificador ==
    /\ pc = "identificador"
    /\ ~(HayCaracter /\ EsDeIdentificador(caracter_actual))
    /\ Emitir("ID", resultado)

\* ------------------------------------------- direct calls of the methods
\* between two calls of analizar the caller may call the cursor methods of
\* the instance itself
LlamarCaracterActual ==
    /\ pc \in {"retornado", "excepcion"}
    /\ devuelto' = [op |-> "caracter_actual",
                    valor |-> IF HayCaracter THEN {caracter_actual} ELSE {}]
    /\ UNCHANGED <<texto, cursor, tokens, pc, locales, salida, lexemas,
                   historia, vueltas, pos_vuelta>>

LlamarPeek ==
    /\ pc \in {"retornado", "excepcion"}
    /\ devuelto' = [op |-> "peek", valor |-> IF HayPeek THEN {peek} ELSE {}]
    /\ UNCHANGED <<texto, cursor, tokens, pc, locales, salida, lexemas,
                   historia, vueltas, pos_vuelta>>

\* avanzar called once more by the caller after analizar has returned
LlamarAvanzar ==
    /\ pc = "retornado"
    /\ avanzar
    /\ devuelto' = [op |-> "avanzar", valor |-> {}]
    /\ UNCHANGED <<texto, tokens, pc, locales, salida, lexemas, historia,
                   vueltas, pos_vuelta>>

\* ------------------------------------------------------------------- spec
Next ==
    \/ Analizar
    \/ Construir
    \/ Retornar
    \/ DespacharEspacios
    \/ DespacharNumero
    \/ DespacharIdentificador
    \/ DespacharError
    \/ SaltarEspacio
    \/ FinEspacios
    \/ DigitoEntero
    \/ PuntoDecimal
    \/ RetornarEntero
    \/ EnteroInvalido
    \/ DigitoDecimal
    \/ RetornarReal
    \/ RealInvalido
    \/ CaracterIdentificador
    \/ RetornarIdentificador
    \/ LlamarCaracterActual
    \/ LlamarPeek
    \/ LlamarAvanzar

Spec == Init /\ [][Next]_vars

FairSpec == Init /\ [][Next]_vars /\ WF_vars(Next)

TypeOK ==
    /\ pos \in 0..Len(texto)
    /\ pc \in {"listo", "loop", "saltar_espacios", "parte_entera",
               "parte_decimal", "identificador", "retornado", "excepcion"}
    /\ Cardinality(retorno) + Cardinality(excepcion) <= 1

\* ------------------------------------------------- positions in the text
\* line and column of the character at 0-based offset p of t, counted from
\* the text alone
Saltos(t, p) == {i \in 1..p : t[i] = "LF"}

LineaDe(t, p) == 1 + Cardinality(Saltos(t, p))

UltimoSalto(t, p) ==
    IF Saltos(t, p) = {} THEN 0
    ELSE CHOOSE i \in Saltos(t, p) : \A j \in Saltos(t, p) : j <= i

ColumnaDe(t, p) == 1 + (p - UltimoSalto(t, p))

Lexema(k) == SubSeq(texto, lexemas[k].ini + 1, lexemas[k].fin)

ErrorLexico(c, lin, col) ==
    [tipo |-> "Exception", caracter |-> c, linea |-> lin, columna |-> col]

\* the running call scans the whole text (first call on a new instance)
\* and has come to its end
Termino == fresco /\ pc \in {"retornado", "excepcion"}

\* ------------------------------------------------------------------ C1
\* C1: when the dispatch loop meets a character that matches none of its
\* three branches, the step raises the error carrying that character and
\* the line and column where it sits, the cursor stays on it and nothing
\* is returned; the scan of "x = 1" ends with the single token ID "x" at
\* (1, 1) and the error for "=" at line 1, column 3.
C1_ErrorEnElCaracter ==
    [][ /\ (pc = "loop" /\ NoReconocido) =>
            /\ pc' = "excepcion"
            /\ excepcion' = {ErrorLexico(texto[pos + 1], LineaDe(texto, pos),
                                         ColumnaDe(texto, pos))}
            /\ pos' = pos
            /\ tokens' = tokens
            /\ retorno' = {}
        /\ (texto = Ej_x_igual_1 /\ fresco' /\ pc' = "excepcion") =>
            /\ tokens' = <<Token("ID", <<"x">>, 1, 1)>>
            /\ excepcion' = {ErrorLexico("=", 1, 3)}
            /\ pos' = 2
      ]_vars

C1_Witness ==
    /\ texto = Ej_x_igual_1
    /\ fresco
    /\ pc = "excepcion"
    /\ excepcion = {ErrorLexico("=", 1, 3)}
    /\ Len(tokens) = 1

\* ------------------------------------------------------------------ C2
\* C2: when leer_numero has read the integer digit run and the cursor is
\* on a "." that no digit follows (the "." may be the last character), the
\* "." is not consumed: the step emits an ENTERO token whose lexeme is the
\* digit run alone and leaves the cursor on the "."; and the dispatch loop
\* then raises the lexical error for that "." at its position; the scan of
\* "42." ends with ENTERO 42 and the error for "." at line 1, column 3.
C2_PuntoFinalNoConsumido ==
    [][ /\ ( /\ pc = "parte_entera"
             /\ HayCaracter /\ texto[pos + 1] = "."
             /\ ~(pos + 1 < Len(texto) /\ isdigit(texto[pos + 2])) ) =>
            /\ pos' = pos
            /\ Len(tokens') = Len(tokens) + 1
            /\ tokens'[Len(tokens')].tipo = "ENTERO"
            /\ lexemas'[Len(tokens')] =
                   [ini |-> pos - Len(resultado), fin |-> pos]
            /\ \A i \in (pos - Len(resultado) + 1)..pos : isdigit(texto[i])
            /\ pc' = "loop"
        /\ (pc = "loop" /\ HayCaracter /\ texto[pos + 1] = ".") =>
            /\ pc' = "excepcion"
            /\ pos' = pos
            /\ excepcion' = {ErrorLexico(".", LineaDe(texto, pos),
                                         ColumnaDe(texto, pos))}
        /\ (texto = Ej_42_punto /\ fresco' /\ pc' = "excepcion") =>
            /\ tokens' = <<Token("ENTERO", 42, 1, 1)>>
            /\ excepcion' = {ErrorLexico(".", 1, 3)}
      ]_vars

\* ------------------------------------------------------------------ C3
\* the maximal runs of characters that are not whitespace, as [ini, fin)
Literales(t) ==
    {[ini |-> a - 1, fin |-> b] : <<a, b>> \in
        {<<a, b>> \in (1..Len(t)) \X (1..Len(t)) :
            /\ a <= b
            /\ \A i \in a..b : ~isspace(t[i])
            /\ a = 1 \/ isspace(t[a - 1])
            /\ b = Len(t) \/ isspace(t[b + 1])}}

TieneParteDecimal(t, l) == \E i \in (l.ini + 1)..l.fin : t[i] = "."

\* l is [0-9]+ or [0-9]+ "." [0-9]+
EsLiteralNumerico(t, l) ==
    /\ \A i \in (l.ini + 1)..l.fin : t[i] \in DigitosASCII \cup {"."}
    /\ Cardinality({i \in (l.ini + 1)..l.fin : t[i] = "."}) <= 1
    /\ t[l.ini + 1] # "."
    /\ t[l.fin] # "."

EsEntradaNumerica(t) == \A l \in Literales(t) : EsLiteralNumerico(t, l)

\* C3: on an input made only of literals [0-9]+ or [0-9]+ "." [0-9]+
\* separated by whitespace the scan of the whole text (the first call of
\* analizar on an instance) never raises, and when it returns
\* there is exactly one token per literal, in the order of the text, each
\* with the literal as its lexeme, of tipo REAL when the literal has a "."
\* followed by a digit and of tipo ENTERO otherwise (there are no other
\* kinds of number token and no ID token).
C3_LiteralesNumericos ==
    (fresco /\ EsEntradaNumerica(texto)) =>
        /\ pc # "excepcion"
        /\ \A k \in 1..Len(tokens) :
            /\ lexemas[k] \in Literales(texto)
            /\ tokens[k].tipo \in {"ENTERO", "REAL"}
            /\ tokens[k].tipo = "REAL" <=>
                   TieneParteDecimal(texto, lexemas[k])
            /\ \A j \in 1..(k - 1) : lexemas[j].fin < lexemas[k].ini
        /\ pc = "retornado" =>
            /\ Len(tokens) = Cardinality(Literales(texto))
            /\ retorno = {tokens}

C3_Witness ==
    /\ fresco
    /\ pc = "retornado"
    /\ texto = Ej_reales
    /\ EsEntradaNumerica(texto)
    /\ Len(tokens) = 3
    /\ tokens[1].tipo = "REAL"
    /\ tokens[2].tipo = "REAL"
    /\ tokens[3].tipo = "ENTERO"

\* ------------------------------------------------------------------ C4
\* C4: every token's linea is 1 plus the number of newlines before the
\* first character of its lexeme and its columna is 1 plus the number of
\* characters between the preceding newline (or the start of the text) and
\* that character; an ID token's valor is that lexeme; the scan of
\* "ab\ncd" returns ID "ab" at (1, 1) and ID "cd" at (2, 1).
C4_PosicionDelToken ==
    /\ Len(lexemas) = Len(tokens)
    /\ \A k \in 1..Len(tokens) :
        /\ 0 <= lexemas[k].ini /\ lexemas[k].ini < lexemas[k].fin
        /\ lexemas[k].fin <= Len(texto)
        /\ tokens[k].linea = LineaDe(texto, lexemas[k].ini)
        /\ tokens[k].columna = ColumnaDe(texto, lexemas[k].ini)
        /\ tokens[k].tipo = "ID" => tokens[k].valor = Lexema(k)
    /\ (texto = Ej_ab_cd /\ Termino) =>
        retorno = {<<Token("ID", <<"a", "b">>, 1, 1),
                     Token("ID", <<"c", "d">>, 2, 1)>>}

C4_Witness ==
    /\ texto = Ej_sangria
    /\ Termino
    /\ Len(tokens) = 2
    /\ tokens[1].linea = 1 /\ tokens[1].columna = 2
    /\ tokens[2].linea = 2 /\ tokens[2].columna = 3

\* ------------------------------------------------------------------ C5
\* C5: an ID token's lexeme is a maximal run of characters that are
\* alphanumeric or "_": every character of it is one, and when the token
\* is emitted the character at the cursor (if any) is not; so the scan of
\* "abc123_def 456" returns exactly ID "abc123_def" and ENTERO 456.
C5_IdentificadorMaximal ==
    [][ /\ ( /\ Len(tokens') = Len(tokens) + 1
             /\ tokens'[Len(tokens')].tipo = "ID" ) =>
            /\ lexemas'[Len(tokens')].fin = pos'
            /\ pos' = Len(texto) \/
                   ~(isalnum(texto[pos' + 1]) \/ texto[pos' + 1] = "_")
            /\ \A i \in 1..Len(tokens'[Len(tokens')].valor) :
                   \/ isalnum(tokens'[Len(tokens')].valor[i])
                   \/ tokens'[Len(tokens')].valor[i] = "_"
            /\ tokens'[Len(tokens')].valor =
                   SubSeq(texto, lexemas'[Len(tokens')].ini + 1, pos')
        /\ (texto = Ej_abc123 /\ fresco' /\ pc' \in {"retornado", "excepcion"}) =>
            retorno' = {<<Token("ID", <<"a", "b", "c", "1", "2", "3", "_",
                                        "d", "e", "f">>, 1, 1),
                          Token("ENTERO", 456, 1, 12)>>}
      ]_vars

C5_Witness ==
    /\ texto = Ej_abc123
    /\ Termino
    /\ Len(tokens) = 2
    /\ tokens[1].tipo = "ID"
    /\ Len(tokens[1].valor) = 10

\* ------------------------------------------------------------------ C6
EsIdentificadorASCII(s) ==
    /\ Len(s) >= 1
    /\ s[1] \in LetrasASCII \cup {"_"}
    /\ \A i \in 2..Len(s) : s[i] \in LetrasASCII \cup DigitosASCII \cup {"_"}

\* C6: every ID token's valor matches [A-Za-z_][A-Za-z0-9_]* and every
\* number token's lexeme matches [0-9]+(\.[0-9]+)?; and a character that
\* is not whitespace, an ASCII digit, an ASCII letter or "_", met by the
\* dispatch loop, raises the lexical error instead of starting a token.
C6_SoloASCII ==
    /\ [](\A k \in 1..Len(tokens) :
            /\ tokens[k].tipo = "ID" => EsIdentificadorASCII(tokens[k].valor)
            /\ tokens[k].tipo \in {"ENTERO", "REAL"} =>
                   EsLiteralNumerico(texto, lexemas[k]))
    /\ [][ ( /\ pc = "loop" /\ HayCaracter
             /\ ~isspace(texto[pos + 1])
             /\ texto[pos + 1] \notin
                    DigitosASCII \cup LetrasASCII \cup {"_"} ) =>
            /\ pc' = "excepcion"
            /\ excepcion' = {ErrorLexico(texto[pos + 1], LineaDe(texto, pos),
                                         ColumnaDe(texto, pos))}
       ]_vars

\* ------------------------------------------------------------------ C7
\* C7: when a call of analizar has returned a token sequence and the same
\* text is scanned again, the second scan returns the identical sequence,
\* whatever state the first scan left behind.
C7_ReanalisisIdentico ==
    (previo.hay /\ previo.retorno # {} /\ pc \in {"retornado", "excepcion"}) =>
        retorno = previo.retorno

\* ------------------------------------------------------------------ C8
\* C8: a scan ends either with the complete token sequence returned and no
\* error, or with one error and nothing returned; and when it fails, the
\* cursor is on the offending character, one that matches no branch of the
\* dispatch, so that no character after it was examined.
C8_TodoOUnError ==
    /\ Cardinality(retorno) + Cardinality(excepcion) <= 1
    /\ pc = "retornado" =>
        /\ retorno = {tokens}
        /\ excepcion = {}
        /\ pos = Len(texto)
    /\ pc = "excepcion" =>
        /\ retorno = {}
        /\ Cardinality(excepcion) = 1
        /\ NoReconocido
    /\ pc \notin {"retornado", "excepcion"} =>
        retorno = {} /\ excepcion = {}

\* ------------------------------------------------------------------ C9
\* C9: of two consecutive tokens the second is at a strictly later
\* (linea, columna): a greater linea, or the same linea and a greater
\* columna.
C9_PosicionesCrecientes ==
    \A k \in 1..(Len(tokens) - 1) :
        \/ tokens[k + 1].linea > tokens[k].linea
        \/ /\ tokens[k + 1].linea = tokens[k].linea
           /\ tokens[k + 1].columna > tokens[k].columna

C9_Witness ==
    /\ texto = Ej_mixto
    /\ Termino
    /\ Len(tokens) = 4
    /\ tokens[3].columna = 7 /\ tokens[4].columna = 10

\* ------------------------------------------------------------------ C10
SoloEspacios(t) == \A i \in 1..Len(t) : t[i] \in Blancos

\* C10: on the empty text and on a text of whitespace only, a call of
\* analizar raises nothing and emits no token at any point, it returns the
\* empty sequence, and it does return.
C10_VacioOEspacios ==
    /\ [](SoloEspacios(texto) =>
            /\ pc # "excepcion"
            /\ tokens = <<>>
            /\ retorno \subseteq {<<>>}
            /\ pc = "retornado" => retorno = {<<>>} /\ pos = Len(texto))
    /\ [](SoloEspacios(texto) /\ pc = "loop" => <>(pc = "retornado"))

C10_Witness ==
    /\ SoloEspacios(texto)
    /\ Len(texto) = 3
    /\ \E i \in 1..Len(texto) : texto[i] = "LF"
    /\ \E i \in 1..Len(texto) : texto[i] = " "
    /\ fresco
    /\ pc = "retornado"
    /\ retorno = {<<>>}

\* ------------------------------------------------------------------ C11
\* C11: in every state 0 <= pos <= len(texto), linea is 1 plus the number
\* of newlines in texto[0..pos) and columna is 1 plus the number of
\* characters of that prefix after its last newline; and a step changes
\* pos, linea or columna of an instance only as one call of avanzar does:
\* pos moves by exactly one, over a newline linea grows by one and columna
\* becomes 1, over another character columna grows by one (the only other
\* change is the construction of a new instance, at 0, 1, 1).
C11_CursorYPosicion ==
    /\ [](/\ 0 <= pos /\ pos <= Len(texto)
          /\ linea = LineaDe(texto, pos)
          /\ columna = ColumnaDe(texto, pos))
    /\ [][ <<pos, linea, columna>> # <<pos', linea', columna'>> =>
            \/ /\ pc' = "listo"
               /\ pos' = 0 /\ linea' = 1 /\ columna' = 1
            \/ /\ pos < Len(texto)
               /\ pos' = pos + 1
               /\ texto[pos + 1] = "LF" => linea' = linea + 1 /\ columna' = 1
               /\ texto[pos + 1] # "LF" =>
                      linea' = linea /\ columna' = columna + 1
       ]_vars

C11_Witness ==
    /\ texto = Ej_sangria
    /\ pc = "identificador"
    /\ pos = 5
    /\ linea = 2
    /\ columna = 3

\* ------------------------------------------------------------------ C12
EnCurso == pc \in {"loop", "saltar_espacios", "parte_entera",
                   "parte_decimal", "identificador"}

\* C12: a call of analizar ends (it returns or raises) on every text; an
\* iteration of its loop that comes back to the loop test has moved the
\* cursor at least one character beyond where the iteration began, every
\* other iteration raises, and so the number of iterations begun never
\* exceeds the length of the text.
C12_Terminacion ==
    /\ [](/\ vueltas <= Len(texto)
          /\ pc = "loop" => vueltas <= pos
          /\ EnCurso => pos_vuelta <= pos)
    /\ [][ /\ (pc # "loop" /\ EnCurso /\ pc' = "loop") => pos' > pos_vuelta
           /\ (EnCurso /\ ~EnCurso') => pc' \in {"retornado", "excepcion"}
       ]_vars
    /\ [](EnCurso => <>(pc \in {"retornado", "excepcion"}))

C12_Witness ==
    /\ texto = Ej_mixto
    /\ fresco
    /\ pc = "retornado"
    /\ vueltas = 7
    /\ pos = Len(texto)

\* ------------------------------------------------------------------ C13
\* C13: the only failure of a scan is the lexical error of the dispatch
\* loop: every exception that leaves analizar is that error, and a call of
\* leer_numero or leer_identificador made by the dispatch always comes
\* back to the loop with one more token.
C13_SoloErrorLexico ==
    /\ [](\A e \in excepcion : e.tipo = "Exception")
    /\ [][ ( /\ pc \in {"parte_entera", "parte_decimal", "identificador"}
             /\ pc' \notin {"parte_entera", "parte_decimal",
                            "identificador"} ) =>
            /\ pc' = "loop"
            /\ Len(tokens') = Len(tokens) + 1
       ]_vars

\* ------------------------------------------------------------------ C14
\* C14: a call of caracter_actual or of peek leaves pos, linea, columna
\* and tokens as they were; caracter_actual returns texto[pos], or None
\* when pos = len(texto); peek returns texto[pos + 1], or None when
\* pos + 1 >= len(texto); a call of avanzar at the end of the text leaves
\* pos, linea and columna as they were; and the loop test and dispatch of
\* analizar, which only consult caracter_actual, move no cursor either.
C14_ConsultasSinEfecto ==
    [][ /\ (devuelto' # devuelto /\ devuelto'.op = "caracter_actual") =>
            /\ UNCHANGED <<pos, linea, columna, tokens>>
            /\ devuelto'.valor =
                   IF pos = Len(texto) THEN {} ELSE {texto[pos + 1]}
        /\ (devuelto' # devuelto /\ devuelto'.op = "peek") =>
            /\ UNCHANGED <<pos, linea, columna, tokens>>
            /\ devuelto'.valor =
                   IF pos + 1 >= Len(texto) THEN {} ELSE {texto[pos + 2]}
        /\ (devuelto' # devuelto /\ devuelto'.op = "avanzar"
                /\ pos = Len(texto)) =>
            UNCHANGED <<pos, linea, columna>>
        /\ pc = "loop" => UNCHANGED <<pos, linea, columna, tokens>>
      ]_vars

C14_Witness ==
    /\ texto = Ej_x_igual_1
    /\ pc = "excepcion"
    /\ pos = 2
    /\ devuelto = [op |-> "peek", valor |-> {" "}]
    /\ Len(tokens) = 1

\* a call of avanzar at the end of the text has been made
C14_AvanzarAlFinal ==
    /\ pc = "retornado"
    /\ pos = Len(texto)
    /\ Len(texto) > 0
    /\ devuelto.op = "avanzar"

\* ------------------------------------------------------------------ C15
\* the tokens whose lexeme holds the character at 1-based position i
TokensEn(i) ==
    {k \in 1..Len(lexemas) : lexemas[k].ini < i /\ i <= lexemas[k].fin}

\* C15: when the scan of the whole text returns, every character of the
\* text is either whitespace that lies in no lexeme or a character that
\* lies in the lexeme of exactly one token; the lexemes do not overlap and
\* the tokens are in increasing order of start offset; what is returned is
\* that token sequence; and the scan of "12abc" returns ENTERO 12 at
\* (1, 1) and then ID "abc" at (1, 3), with no error.
C15_Particion ==
    /\ (fresco /\ pc = "retornado") =>
        /\ retorno = {tokens}
        /\ Len(lexemas) = Len(tokens)
        /\ \A i \in 1..Len(texto) :
            IF texto[i] \in Blancos
            THEN TokensEn(i) = {}
            ELSE Cardinality(TokensEn(i)) = 1
        /\ \A k \in 1..(Len(lexemas) - 1) :
            /\ lexemas[k].ini < lexemas[k + 1].ini
            /\ lexemas[k].fin <= lexemas[k + 1].ini
    /\ (texto = Ej_12abc /\ fresco) =>
        /\ pc # "excepcion"
        /\ pc = "retornado" =>
            retorno = {<<Token("ENTERO", 12, 1, 1),
                         Token("ID", <<"a", "b", "c">>, 1, 3)>>}

C15_Witness ==
    /\ texto = Ej_12abc
    /\ fresco
    /\ pc = "retornado"
    /\ lexemas = <<[ini |-> 0, fin |-> 2], [ini |-> 2, fin |-> 5]>>

\* ------------------------------------------------------------------ C16
Puntos(l) == {i \in (l.ini + 1)..l.fin : texto[i] = "."}

\* C16: the lexeme of a number token holds at most one "."; a call of
\* analizar consumes a "." only in leer_numero, right after a digit run of
\* at least one digit and when a digit follows the "."; once the decimal
\* part is being read a "." at the cursor is left where it is, even when a
\* digit follows it; and a "." that the dispatch loop meets raises the
\* lexical error at the position of that ".".  So the scan of "1.2.3" ends
\* with REAL 1.2 and the error for "." at line 1, column 4.
C16_UnSoloPunto ==
    /\ [](\A k \in 1..Len(tokens) :
            /\ Cardinality(Puntos(lexemas[k])) <= 1
            /\ tokens[k].tipo = "REAL" <=> Cardinality(Puntos(lexemas[k])) = 1)
    /\ [][ /\ (EnCurso /\ pos < Len(texto) /\ texto[pos + 1] = "."
                  /\ pos' # pos) =>
               /\ pc = "parte_entera" /\ pc' = "parte_decimal"
               /\ pos' = pos + 1
               /\ Len(resultado) >= 1
               /\ \A i \in 1..Len(resultado) : isdigit(resultado[i])
               /\ resultado = SubSeq(texto, pos - Len(resultado) + 1, pos)
               /\ pos + 1 < Len(texto) /\ isdigit(texto[pos + 2])
           /\ (pc = "parte_decimal" /\ pos < Len(texto)
                  /\ texto[pos + 1] = ".") =>
               /\ pos' = pos
               /\ pc' \in {"loop", "excepcion"}
           /\ (pc = "loop" /\ pos < Len(texto) /\ texto[pos + 1] = ".") =>
               /\ pc' = "excepcion"
               /\ pos' = pos
               /\ tokens' = tokens
               /\ excepcion' = {ErrorLexico(".", LineaDe(texto, pos),
                                            ColumnaDe(texto, pos))}
           /\ (texto = Ej_1_2_3 /\ fresco' /\ pc' = "excepcion") =>
               /\ tokens' = <<Token("REAL", [mant |-> 12, exp |-> 1], 1, 1)>>
               /\ excepcion' = {ErrorLexico(".", 1, 4)}
               /\ pos' = 3
       ]_vars

C16_Witness ==
    /\ texto = Ej_1_2_3
    /\ fresco
    /\ pc = "excepcion"
    /\ pos = 3
    /\ Len(tokens) = 1
    /\ tokens[1].tipo = "REAL"
    /\ excepcion = {ErrorLexico(".", 1, 4)}

\* a text that begins with "." has failed at that "."
C16_PuntoInicial ==
    /\ Len(texto) >= 2
    /\ texto[1] = "." /\ isdigit(texto[2])
    /\ pc = "excepcion"
    /\ pos = 0
    /\ excepcion = {ErrorLexico(".", 1, 1)}

\* ------------------------------------------------------------------ C17
Cifras == <<"0", "1", "2", "3", "4", "5", "6", "7", "8", "9">>

\* the value of a decimal digit: its place among the ASCII digits, and 3
\* for ARABIC-INDIC DIGIT THREE
Cifra(c) ==
    IF c = "U+0663" THEN 3 ELSE (CHOOSE d \in 1..10 : Cifras[d] = c) - 1

\* the base-10 value of the digits s[i..], read from the left after acc
RECURSIVE ValorDesde(_, _, _)
ValorDesde(s, i, acc) ==
    IF i > Len(s) THEN acc ELSE ValorDesde(s, i + 1, acc * 10 + Cifra(s[i]))

\* C17: the valor of every ENTERO token is the base-10 value of its
\* lexeme, and that lexeme is the whole run of digits that begins where
\* the token begins: every character of it is a digit and no digit follows
\* it; leading zeros add nothing: the scan of "007" returns ENTERO 7.
C17_ValorEntero ==
    /\ \A k \in 1..Len(tokens) :
        tokens[k].tipo = "ENTERO" =>
            /\ lexemas[k].ini < lexemas[k].fin
            /\ \A i \in (lexemas[k].ini + 1)..lexemas[k].fin :
                   isdigit(texto[i])
            /\ lexemas[k].fin = Len(texto) \/
                   ~isdigit(texto[lexemas[k].fin + 1])
            /\ tokens[k].valor = ValorDesde(Lexema(k), 1, 0)
    /\ (texto = Ej_007 /\ Termino) =>
        retorno = {<<Token("ENTERO", 7, 1, 1)>>}

C17_Witness ==
    /\ texto = Ej_abc123
    /\ Termino
    /\ Len(tokens) = 2
    /\ tokens[2].tipo = "ENTERO"
    /\ tokens[2].valor = 456

\* leading zeros have been read and ignored
C17_CerosIniciales ==
    /\ texto = Ej_007
    /\ Termino
    /\ retorno = {<<Token("ENTERO", 7, 1, 1)>>}
====
